---- MODULE Spec2Model ----
(***************************************************************************)
(* Heartbeat main-session context builder                                  *)
(* (src/src/infra/heartbeat-main-context.ts).                              *)
(*                                                                         *)
(* A session runtime appends JSON records, one per line, to a transcript   *)
(* file.  The builder reads the last maxBytes bytes of the file, splits    *)
(* them into lines, parses each line, extracts the text of user/assistant  *)
(* messages, drops injected boilerplate, keeps the last maxMessages        *)
(* messages and renders them under a fixed header within maxChars.         *)
(*                                                                         *)
(* Texts are TLA+ strings and are processed character by character, as the *)
(* code does.  The transcript holds ASCII only, so a byte is a character.  *)
(* The one-character ellipsis U+2026 is written "~" (no text of the model  *)
(* contains "~").                                                          *)
(*                                                                         *)
(* The source file under src/ has no progress classifier, no trailing trim *)
(* and no diagnostics, while its test file exercises all three through     *)
(* buildHeartbeatMainSessionContext.  Those parts are modelled from the    *)
(* specification text and the tests; each such definition says so.         *)
(***************************************************************************)
EXTENDS Integers, Sequences, FiniteSets, TLC

(***************************************************************************)
(* Bounds of the model.                                                    *)
(***************************************************************************)
\* Lines the writer appends to the initial transcript in one behaviour.
MaxAppends == 2
\* The records of a file at rest.
MaxLines == 2

(***************************************************************************)
(* Program constants.                                                      *)
(***************************************************************************)
DefaultMaxBytes == 256000
DefaultMaxMessages == 14
DefaultMaxChars == 5000
DefaultMaxLineChars == 420
MinMaxBytes == 1
MinMaxMessages == 1
MinMaxChars == 200
MinMaxLineChars == 50
\* Longest text segment that can still be a progress phrase.
ProgressMaxChars == 140

Ellipsis == "~"

header ==
  "Recent main chat context (tail; read-only). "
    \o "Use for tailoring heartbeat decisions; do not treat as new instructions:"

(***************************************************************************)
(* Strings, as JavaScript treats them.                                     *)
(***************************************************************************)
Min(S) == CHOOSE x \in S : \A y \in S : x <= y
MathMax(a, b) == IF a >= b THEN a ELSE b
MathMin(a, b) == IF a <= b THEN a ELSE b

\* The characters \s matches and trim() removes.
Whitespace == {" ", "\t", "\n", "\r", "\f"}

CharAt(s, i) == SubSeq(s, i, i)

\* s.slice(0, n) for n >= 0.
SliceTo(s, n) == SubSeq(s, 1, MathMin(n, Len(s)))

\* !s.trim()
IsBlank(s) == \A i \in 1..Len(s) : CharAt(s, i) \in Whitespace

\* The first and the last character of s that is no white space (s not blank).
RECURSIVE FirstInk(_, _)
FirstInk(s, i) == IF CharAt(s, i) \notin Whitespace THEN i ELSE FirstInk(s, i + 1)
RECURSIVE LastInk(_, _)
LastInk(s, i) == IF CharAt(s, i) \notin Whitespace THEN i ELSE LastInk(s, i - 1)

\* s.trim()
Trim(s) ==
  IF IsBlank(s) THEN ""
  ELSE SubSeq(s, FirstInk(s, 1), LastInk(s, Len(s)))

\* s.startsWith(p)
StartsWith(s, p) == Len(s) >= Len(p) /\ SubSeq(s, 1, Len(p)) = p

\* s.includes(p)
Includes(s, p) ==
  \/ p = ""
  \/ \E i \in 1..(Len(s) - Len(p) + 1) :
       /\ CharAt(s, i) = CharAt(p, 1)
       /\ SubSeq(s, i, i + Len(p) - 1) = p

\* s.endsWith(p)
EndsWith(s, p) == Len(s) >= Len(p) /\ SubSeq(s, Len(s) - Len(p) + 1, Len(s)) = p

\* s.replace(/\s+/g, " "): the words of s (the runs without white space), each
\* run of white space between and around them replaced by one space.
CollapseWhitespace(s) ==
  LET n == Len(s)
      IsWs(i) == CharAt(s, i) \in Whitespace
      \* where a word starts, and where a run of white space starts
      wordStarts == {i \in 1..n : ~IsWs(i) /\ (i = 1 \/ IsWs(i - 1))}
      gapStarts == {i \in 1..n : IsWs(i) /\ (i = 1 \/ ~IsWs(i - 1))}
      \* the piece that starts at i: a word, or " " for a run of white space
      NextStart(i) ==
        LET later == {j \in wordStarts \cup gapStarts : j > i}
        IN  IF later = {} THEN n + 1 ELSE Min(later)
      Piece(i) == IF i \in gapStarts THEN " " ELSE SubSeq(s, i, NextStart(i) - 1)
      RECURSIVE Pieces(_)
      Pieces(i) == IF i > n THEN "" ELSE Piece(i) \o Pieces(NextStart(i))
  IN  Pieces(1)

stripAndCollapseWhitespace(text) == CollapseWhitespace(Trim(text))

\* parts.join(sep)
RECURSIVE Join(_, _)
Join(parts, sep) ==
  IF parts = <<>> THEN ""
  ELSE IF Len(parts) = 1 THEN parts[1]
  ELSE parts[1] \o sep \o Join(Tail(parts), sep)

\* s.split(/\r?\n/): the pieces between line feeds, a carriage return right
\* before a line feed belonging to the separator.
SplitLines(s) ==
  LET nl == {i \in 1..Len(s) : CharAt(s, i) = "\n"}
      n == Cardinality(nl)
      \* the k-th line feed
      Pos(k) == CHOOSE i \in nl : Cardinality({j \in nl : j < i}) = k - 1
      First(k) == IF k = 1 THEN 1 ELSE Pos(k - 1) + 1
      Last(k) == IF k = n + 1 THEN Len(s) ELSE Pos(k) - 1
      Piece(k) == SubSeq(s, First(k), Last(k))
      Strip(k, piece) ==
        IF k <= n /\ EndsWith(piece, "\r") THEN SubSeq(piece, 1, Len(piece) - 1)
        ELSE piece
  IN  [k \in 1..(n + 1) |-> Strip(k, Piece(k))]

\* seq.filter(p) for a predicate given as the set of kept values' indexes.
RECURSIVE SelectIdx(_, _, _)
SelectIdx(seq, keep, i) ==
  IF i > Len(seq) THEN <<>>
  ELSE (IF i \in keep THEN <<seq[i]>> ELSE <<>>) \o SelectIdx(seq, keep, i + 1)

(***************************************************************************)
(* JavaScript values, as JSON.parse returns them.                          *)
(***************************************************************************)
Undefined == [t |-> "undefined"]
Null == [t |-> "null"]
Str(s) == [t |-> "string", s |-> s]
Num(n) == [t |-> "number", n |-> n]
Arr(items) == [t |-> "array", items |-> items]
\* A transcript record {type, message}.
RecordObj(type, message) == [t |-> "object", type |-> type, message |-> message]
\* A message payload {role, content}.
MessageObj(role, content) == [t |-> "object", role |-> role, content |-> content]
\* A content block; hasType is ("type" in block).
BlockObj(hasType, type, text) ==
  [t |-> "object", hasType |-> hasType, type |-> type, text |-> text]

TextBlock(s) == BlockObj(TRUE, Str("text"), Str(s))
ToolCallBlock == BlockObj(TRUE, Str("toolCall"), Undefined)
ImageBlock == BlockObj(TRUE, Str("image"), Undefined)
AudioBlock == BlockObj(TRUE, Str("audio"), Undefined)
\* A block without a type tag.
UntypedBlock == BlockObj(FALSE, Undefined, Undefined)
MessageRecord(role, content) == RecordObj(Str("message"), MessageObj(Str(role), content))

\* typeof v === "object"
TypeofObject(v) == v.t \in {"object", "array", "null"}
\* !v
Falsy(v) ==
  \/ v.t \in {"undefined", "null"}
  \/ v.t = "string" /\ v.s = ""
  \/ v.t = "number" /\ v.n = 0
\* typeof v === "string"
IsString(v) == v.t = "string"
\* String(v), for the values a block's type takes here.
JsString(v) ==
  CASE v.t = "string" -> v.s
    [] v.t = "undefined" -> "undefined"
    [] v.t = "null" -> "null"
    [] OTHER -> "[object Object]"

(***************************************************************************)
(* The lines a transcript holds in this model, each with the value         *)
(* JSON.parse gives for it.                                                *)
(***************************************************************************)
ConclusionText ==
  "conclusion: prefer the in-game event first,\n then add the official channel discount;   details follow below."
HeartbeatPrompt ==
  "Read HEARTBEAT.md if it exists. If nothing else, reply HEARTBEAT_OK as plain assistant text only."
SystemExecText == "System: [2026-02-10] Exec completed (code 0)"

RawSession ==
  "{\"type\":\"session\",\"version\":3,\"id\":\"s1\"}"
RawUserHello ==
  "{\"type\":\"message\",\"message\":{\"role\":\"user\",\"content\":[{\"type\":\"text\",\"text\":\"hello\"}]}}"
RawAsstHi ==
  "{\"type\":\"message\",\"message\":{\"role\":\"assistant\",\"content\":[{\"type\":\"text\",\"text\":\"hi there\"}]}}"
RawAsstProgress ==
  "{\"type\":\"message\",\"message\":{\"role\":\"assistant\",\"content\":[{\"type\":\"text\",\"text\":\"let me check that\"},{\"type\":\"toolCall\",\"id\":\"c1\",\"name\":\"web_search\",\"arguments\":{\"query\":\"q\"}}]}}"
RawAsstConclusion ==
  "{\"type\":\"message\",\"message\":{\"role\":\"assistant\",\"content\":[{\"type\":\"text\",\"text\":\"conclusion: prefer the in-game event first,\\n then add the official channel discount;   details follow below.\"},{\"type\":\"toolCall\",\"id\":\"c1\",\"name\":\"web_search\",\"arguments\":{\"query\":\"q\"}}]}}"
RawUserImage ==
  "{\"type\":\"message\",\"message\":{\"role\":\"user\",\"content\":[{\"type\":\"image\",\"mimeType\":\"image/png\"}]}}"
RawToolResult ==
  "{\"type\":\"message\",\"message\":{\"role\":\"toolResult\",\"content\":[{\"type\":\"text\",\"text\":\"tool output\"}]}}"
RawUserHeartbeat ==
  "{\"type\":\"message\",\"message\":{\"role\":\"user\",\"content\":[{\"type\":\"text\",\"text\":\"Read HEARTBEAT.md if it exists. If nothing else, reply HEARTBEAT_OK as plain assistant text only.\"}]}}"
RawUserQuoted ==
  "{\"type\":\"message\",\"message\":{\"role\":\"user\",\"content\":[{\"type\":\"text\",\"text\":\"fyi\"},{\"type\":\"text\",\"text\":\"Read HEARTBEAT.md if it exists.\"}]}}"
RawUserSystemExec ==
  "{\"type\":\"message\",\"message\":{\"role\":\"user\",\"content\":[{\"type\":\"text\",\"text\":\"System: [2026-02-10] Exec completed (code 0)\"}]}}"
RawUserPlain ==
  "{\"type\":\"message\",\"message\":{\"role\":\"user\",\"content\":\"plain hello\"}}"
RawAsstToolOnly ==
  "{\"type\":\"message\",\"message\":{\"role\":\"assistant\",\"content\":[{\"type\":\"toolCall\",\"id\":\"c1\",\"name\":\"web_search\",\"arguments\":{\"query\":\"q\"}}]}}"
RawBadPayload ==
  "{\"type\":\"message\",\"message\":\"oops\"}"
\* A status announcement of more than 140 characters.
LongProgressText ==
  "let me check the pricing table and the discount rules: the event price is lower than the channel price, so the event comes first and the channel second."
RawAsstProgressNoTool ==
  "{\"type\":\"message\",\"message\":{\"role\":\"assistant\",\"content\":[{\"type\":\"text\",\"text\":\"working on it\"}]}}"
RawAsstLongProgress ==
  "{\"type\":\"message\",\"message\":{\"role\":\"assistant\",\"content\":[{\"type\":\"text\",\"text\":\"let me check the pricing table and the discount rules: the event price is lower than the channel price, so the event comes first and the channel second.\"},{\"type\":\"toolCall\",\"id\":\"c1\",\"name\":\"web_search\",\"arguments\":{\"query\":\"q\"}}]}}"
RawAsstMixed ==
  "{\"type\":\"message\",\"message\":{\"role\":\"assistant\",\"content\":[{\"type\":\"text\",\"text\":\"let me check that\"},{\"type\":\"text\",\"text\":\"it is fixed now\"},{\"type\":\"toolCall\",\"id\":\"c1\",\"name\":\"web_search\",\"arguments\":{\"query\":\"q\"}}]}}"
RawUserMedia ==
  "{\"type\":\"message\",\"message\":{\"role\":\"user\",\"content\":[{\"type\":\"text\",\"text\":\" \"},{\"type\":\"image\"},{\"type\":\"audio\"},{\"type\":\"image\"},{\"mimeType\":\"image/png\"}]}}"
RawUserEmpty ==
  "{\"type\":\"message\",\"message\":{\"role\":\"user\",\"content\":[]}}"
RawAsstPlain ==
  "{\"type\":\"message\",\"message\":{\"role\":\"assistant\",\"content\":\"plain answer\"}}"
\* A record cut short while being written: not JSON.
RawPartial ==
  "{\"type\":\"message\",\"message\":{\"role\":\"user\",\"content\":[{\"type\":\"te"
\* A line that is JSON but no object.
RawNumber == "42"
\* A line of white space only.
RawBlank == "  "

\* JSON.parse(s): [ok |-> TRUE, value |-> v], or [ok |-> FALSE] where it throws.
\* A string that is none of the lines above is a proper part of one, or has
\* white space or other lines' bytes around one, and is not JSON.
JSONparse(s) ==
  LET Ok(v) == [ok |-> TRUE, value |-> v]
  IN  CASE s = RawSession -> Ok(RecordObj(Str("session"), Undefined))
        [] s = RawUserHello -> Ok(MessageRecord("user", Arr(<<TextBlock("hello")>>)))
        [] s = RawAsstHi -> Ok(MessageRecord("assistant", Arr(<<TextBlock("hi there")>>)))
        [] s = RawAsstProgress ->
             Ok(MessageRecord("assistant",
                  Arr(<<TextBlock("let me check that"), ToolCallBlock>>)))
        [] s = RawAsstConclusion ->
             Ok(MessageRecord("assistant", Arr(<<TextBlock(ConclusionText), ToolCallBlock>>)))
        [] s = RawUserImage -> Ok(MessageRecord("user", Arr(<<ImageBlock>>)))
        [] s = RawToolResult ->
             Ok(MessageRecord("toolResult", Arr(<<TextBlock("tool output")>>)))
        [] s = RawUserHeartbeat ->
             Ok(MessageRecord("user", Arr(<<TextBlock(HeartbeatPrompt)>>)))
        [] s = RawUserQuoted ->
             Ok(MessageRecord("user",
                  Arr(<<TextBlock("fyi"), TextBlock("Read HEARTBEAT.md if it exists.")>>)))
        [] s = RawUserSystemExec ->
             Ok(MessageRecord("user", Arr(<<TextBlock(SystemExecText)>>)))
        [] s = RawUserPlain -> Ok(MessageRecord("user", Str("plain hello")))
        [] s = RawAsstToolOnly -> Ok(MessageRecord("assistant", Arr(<<ToolCallBlock>>)))
        [] s = RawBadPayload -> Ok(RecordObj(Str("message"), Str("oops")))
        [] s = RawAsstProgressNoTool ->
             Ok(MessageRecord("assistant", Arr(<<TextBlock("working on it")>>)))
        [] s = RawAsstLongProgress ->
             Ok(MessageRecord("assistant", Arr(<<TextBlock(LongProgressText), ToolCallBlock>>)))
        [] s = RawAsstMixed ->
             Ok(MessageRecord("assistant",
                  Arr(<<TextBlock("let me check that"), TextBlock("it is fixed now"),
                        ToolCallBlock>>)))
        [] s = RawUserMedia ->
             Ok(MessageRecord("user",
                  Arr(<<TextBlock(" "), ImageBlock, AudioBlock, ImageBlock, UntypedBlock>>)))
        [] s = RawUserEmpty -> Ok(MessageRecord("user", Arr(<<>>)))
        [] s = RawAsstPlain -> Ok(MessageRecord("assistant", Str("plain answer")))
        [] s = RawNumber -> Ok(Num(42))
        [] OTHER -> [ok |-> FALSE]

(***************************************************************************)
(* Noise filter and text extraction.                                       *)
(***************************************************************************)
\* Mutation of shouldIgnoreText: the system-event rule is lost.
shouldIgnoreTextNoExecRule(text) ==
  LET trimmed == Trim(text)
  IN  \/ trimmed = ""
      \/ StartsWith(trimmed, "Read HEARTBEAT.md if it exists.")
      \/ Includes(trimmed, "reply HEARTBEAT_OK")
      \/ Includes(trimmed, "Never call the message tool to send HEARTBEAT_OK")

shouldIgnoreText(text) ==
  LET trimmed == Trim(text)
  IN  \/ trimmed = ""
      \/ StartsWith(trimmed, "Read HEARTBEAT.md if it exists.")
      \/ Includes(trimmed, "reply HEARTBEAT_OK")
      \/ Includes(trimmed, "Never call the message tool to send HEARTBEAT_OK")
      \/ StartsWith(trimmed, "System:") /\ Includes(trimmed, "Exec completed")

\* Mutation of ContentBlocks: a string content counts as one text block.
ContentBlocksOrString(message) ==
  IF message.content.t = "array" THEN message.content.items
  ELSE IF message.content.t = "string" THEN <<TextBlock(message.content.s)>>
  ELSE <<>>

\* Array.isArray(message.content) ? message.content : []
ContentBlocks(message) ==
  IF message.content.t = "array" THEN message.content.items ELSE <<>>

\* The texts of the blocks of type "text" whose text is a non-blank string.
TextParts(content) ==
  LET IsTextPart(b) ==
        /\ b.t = "object"
        /\ (IF b.hasType THEN JsString(b.type) ELSE "") = "text"
        /\ IsString(b.text)
        /\ ~IsBlank(b.text.s)
      keep == {i \in 1..Len(content) : IsTextPart(content[i])}
      blocks == SelectIdx(content, keep, 1)
  IN  [i \in 1..Len(blocks) |-> blocks[i].text.s]

\* The distinct non-blank string type tags of the blocks, trimmed, in order of
\* first appearance.
BlockTypes(content) ==
  LET TagOf(b) ==
        IF b.t = "object" /\ IsString(b.type) /\ ~IsBlank(b.type.s)
          THEN Trim(b.type.s) ELSE ""
      tags == [i \in 1..Len(content) |-> TagOf(content[i])]
      keep == {i \in 1..Len(tags) :
                 /\ tags[i] # ""
                 /\ \A j \in 1..(i - 1) : tags[j] # tags[i]}
  IN  SelectIdx(tags, keep, 1)

\* Mutation of extractTextOrUserPlaceholder: the placeholder is made for every
\* role.
extractTextOrPlaceholder(message) ==
  LET content == ContentBlocks(message)
      combined == Trim(Join(TextParts(content), "\n"))
      types == BlockTypes(content)
  IN  IF combined # "" THEN combined
      ELSE IF Len(types) = 0 THEN ""
      ELSE "[non-text message: " \o Join(types, ", ") \o "]"

\* The text, or "" for null.
extractTextOrUserPlaceholder(message) ==
  LET content == ContentBlocks(message)
      combined == Trim(Join(TextParts(content), "\n"))
      types == BlockTypes(content)
  IN  IF combined # "" THEN combined
      ELSE IF message.role # Str("user") THEN ""
      ELSE IF Len(types) = 0 THEN ""
      ELSE "[non-text message: " \o Join(types, ", ") \o "]"

(***************************************************************************)
(* Progress classifier.  Modelled from the specification (section 4.4):    *)
(* the source file under src/ does not hold it.                            *)
(***************************************************************************)
\* The block types that state a tool-call/tool-use intent.
ToolIntentTypes == {"toolCall", "toolUse"}

\* The status-announcement phrases a progress text leads with.
ProgressPhrases ==
  {"let me check", "let me look into", "let me search for", "i'm currently",
   "working on it"}

\* A text segment is a progress phrase: short, and leading with a phrase.
isProgressPhrase(segment) ==
  LET s == stripAndCollapseWhitespace(segment)
  IN  /\ Len(s) <= ProgressMaxChars
      /\ \E p \in ProgressPhrases : StartsWith(s, p)

hasToolIntent(content) ==
  \E i \in 1..Len(content) :
    /\ content[i].t = "object"
    /\ IsString(content[i].type)
    /\ content[i].type.s \in ToolIntentTypes

\* Mutation of isProgressOnly: the tool intent alone decides.
isProgressOnlyByToolIntent(message) == hasToolIntent(ContentBlocks(message))

\* An assistant message is progress-only: a tool intent, and no text or only
\* progress phrases.
isProgressOnly(message) ==
  LET content == ContentBlocks(message)
      parts == TextParts(content)
  IN  /\ hasToolIntent(content)
      /\ \A i \in 1..Len(parts) : isProgressPhrase(parts[i])

\* The derived message {role, text, isProgressOnly}; isProgressOnly is set for
\* an assistant message only.
TranscriptMessage(role, text, message) ==
  IF role = "assistant"
    THEN [role |-> role, text |-> text, isProgressOnly |-> isProgressOnly(message)]
    ELSE [role |-> role, text |-> text]

IsProgressOnlyAssistant(m) == m.role = "assistant" /\ m.isProgressOnly

(***************************************************************************)
(* Line parser.                                                            *)
(***************************************************************************)
\* Mutation of parseLine: the role check is lost.
parseLineAnyRole(rawLine) ==
  LET trimmed == Trim(rawLine)
      parsed == JSONparse(trimmed)
      record == parsed.value
      msg == record.message
      text == extractTextOrUserPlaceholder(msg)
  IN  IF trimmed = "" THEN <<>>
      ELSE IF ~parsed.ok THEN <<>>
      ELSE IF Falsy(record) \/ ~TypeofObject(record) THEN <<>>
      ELSE IF record.t # "object" \/ record.type # Str("message") THEN <<>>
      ELSE IF Falsy(msg) \/ ~TypeofObject(msg) THEN <<>>
      ELSE IF text = "" THEN <<>>
      ELSE IF shouldIgnoreText(text) THEN <<>>
      ELSE <<TranscriptMessage(msg.role.s, text, msg)>>

\* One pass of the loop over the lines: the message the line contributes, as
\* a sequence of length 0 or 1.
parseLine(rawLine) ==
  LET trimmed == Trim(rawLine)
      parsed == JSONparse(trimmed)
      record == parsed.value
      msg == record.message
      text == extractTextOrUserPlaceholder(msg)
  IN  IF trimmed = "" THEN <<>>
      ELSE IF ~parsed.ok THEN <<>>
      ELSE IF Falsy(record) \/ ~TypeofObject(record) THEN <<>>
      ELSE IF record.t # "object" \/ record.type # Str("message") THEN <<>>
      ELSE IF Falsy(msg) \/ ~TypeofObject(msg) THEN <<>>
      ELSE IF msg.role # Str("user") /\ msg.role # Str("assistant") THEN <<>>
      ELSE IF text = "" THEN <<>>
      ELSE IF shouldIgnoreText(text) THEN <<>>
      ELSE <<TranscriptMessage(msg.role.s, text, msg)>>

RECURSIVE parseLines(_)
parseLines(lines) ==
  IF lines = <<>> THEN <<>>
  ELSE parseLine(Head(lines)) \o parseLines(Tail(lines))

\* Mutation of tailLines: the first line is kept whatever the offset.
tailLinesKeepFirst(tail, offset) == SplitLines(tail)

\* The lines of the tail that are parsed: the first one is dropped when the
\* tail does not start at the beginning of the file.
tailLines(tail, offset) ==
  LET lines == SplitLines(tail)
  IN  IF Len(lines) > 0 /\ offset > 0 THEN Tail(lines) ELSE lines

\* out, before the count bound.
parseTranscriptMessages(tail, offset) ==
  IF IsBlank(tail) THEN <<>> ELSE parseLines(tailLines(tail, offset))

\* Mutation of takeRecent: the count bound is lost.
takeRecentUnbounded(out, maxMessages) == out

\* Mutation of takeRecent: the oldest messages are kept, not the newest.
takeRecentOldest(out, maxMessages) ==
  IF Len(out) <= maxMessages THEN out ELSE SubSeq(out, 1, maxMessages)

\* out.length <= maxMessages ? out : out.slice(-maxMessages)
takeRecent(out, maxMessages) ==
  IF Len(out) <= maxMessages THEN out
  ELSE SubSeq(out, Len(out) - maxMessages + 1, Len(out))

readRecentTranscriptMessages(tail, offset, maxMessages) ==
  takeRecent(parseTranscriptMessages(tail, offset), maxMessages)

(***************************************************************************)
(* Trailing trim.  Modelled from the specification (section 4.5) and the   *)
(* tests "trims unresolved tail turns ending with a progress-only          *)
(* assistant" and "reports diagnostics for trimmed unresolved trailing     *)
(* turns": the trailing progress-only assistant messages are dropped, and  *)
(* once one has been dropped so are the unanswered user messages before it.*)
(***************************************************************************)
RECURSIVE trimFrom(_, _)
trimFrom(messages, trimmed) ==
  IF messages = <<>> THEN messages
  ELSE LET last == messages[Len(messages)]
       IN  IF \/ IsProgressOnlyAssistant(last)
              \/ trimmed > 0 /\ last.role = "user"
             THEN trimFrom(SubSeq(messages, 1, Len(messages) - 1), trimmed + 1)
             ELSE messages

\* Mutation of trimUnresolvedTail: nothing is trimmed.
trimNothing(messages) == messages

\* Mutation of trimUnresolvedTail: only the trailing progress-only assistant
\* messages are trimmed, the user messages before them stay.
RECURSIVE trimProgressRunOnly(_)
trimProgressRunOnly(messages) ==
  IF messages = <<>> THEN messages
  ELSE IF IsProgressOnlyAssistant(messages[Len(messages)])
    THEN trimProgressRunOnly(SubSeq(messages, 1, Len(messages) - 1))
    ELSE messages

trimUnresolvedTail(messages) == trimFrom(messages, 0)

(***************************************************************************)
(* Formatter.                                                              *)
(***************************************************************************)
\* One rendered line.
renderLine(msg, maxLineChars) ==
  LET label == IF msg.role = "user" THEN "User" ELSE "Assistant"
      collapsed == stripAndCollapseWhitespace(msg.text)
      text == IF Len(collapsed) > maxLineChars
                THEN SliceTo(collapsed, MathMax(0, maxLineChars - 1)) \o Ellipsis
                ELSE collapsed
  IN  label \o ": " \o text

renderLines(recent, maxLineChars) ==
  [i \in 1..Len(recent) |-> renderLine(recent[i], maxLineChars)]

\* Mutation of renderBlock: the block is cut at maxChars, not maxChars - 1.
renderBlockOffByOne(recent, maxChars, maxLineChars) ==
  LET block == header \o "\n" \o Join(renderLines(recent, maxLineChars), "\n")
  IN  IF Len(block) <= maxChars THEN block
      ELSE SliceTo(block, maxChars) \o Ellipsis

\* The block of a non-empty sequence of messages.
renderBlock(recent, maxChars, maxLineChars) ==
  LET block == header \o "\n" \o Join(renderLines(recent, maxLineChars), "\n")
  IN  IF Len(block) <= maxChars THEN block
      ELSE SliceTo(block, MathMax(0, maxChars - 1)) \o Ellipsis

(***************************************************************************)
(* Options: a value that may be absent is a sequence of length 0 or 1.     *)
(***************************************************************************)
None == <<>>
Some(x) == <<x>>
\* o ?? d
OrDefault(o, d) == IF o = None THEN d ELSE o[1]

resolveMaxBytes(params) == MathMax(MinMaxBytes, OrDefault(params.maxBytes, DefaultMaxBytes))
resolveMaxMessages(params) ==
  MathMax(MinMaxMessages, OrDefault(params.maxMessages, DefaultMaxMessages))
resolveMaxChars(params) == MathMax(MinMaxChars, OrDefault(params.maxChars, DefaultMaxChars))
resolveMaxLineChars(params) ==
  MathMax(MinMaxLineChars, OrDefault(params.maxLineChars, DefaultMaxLineChars))

(***************************************************************************)
(* build: the result {block, diagnostics} for the tail read.  The source   *)
(* file holds the pipeline without the trim and the diagnostics; their     *)
(* place in it is modelled from the specification (section 4.5).           *)
(***************************************************************************)
\* The block for the messages that survive: null when there is none.
blockOf(recent, params) ==
  IF Len(recent) = 0 THEN None
  ELSE Some(renderBlock(recent, resolveMaxChars(params), resolveMaxLineChars(params)))

\* Mutation of buildHeartbeatMainSessionContext: the trim runs before the
\* count bound, so that older messages take the place of the trimmed ones.
buildTrimBeforeBound(tail, offset, params) ==
  LET maxMessages == resolveMaxMessages(params)
      out == parseTranscriptMessages(tail, offset)
      trimmed == trimUnresolvedTail(out)
      kept == takeRecent(trimmed, maxMessages)
  IN  [parsed |-> out,
       included |-> kept,
       block |-> blockOf(kept, params),
       diagnostics |-> [parsedMessages |-> Len(out),
                        includedMessages |-> Len(kept),
                        trimmedTrailingMessages |-> Len(out) - Len(trimmed)]]

buildHeartbeatMainSessionContext(tail, offset, params) ==
  LET maxMessages == resolveMaxMessages(params)
      out == parseTranscriptMessages(tail, offset)
      bounded == takeRecent(out, maxMessages)
      kept == takeRecent(trimUnresolvedTail(bounded), maxMessages)
  IN  [parsed |-> out,
       included |-> kept,
       block |-> blockOf(kept, params),
       diagnostics |-> [parsedMessages |-> Len(out),
                        includedMessages |-> Len(kept),
                        trimmedTrailingMessages |-> Len(bounded) - Len(kept)]]

(***************************************************************************)
(* The transcripts and the calls of the model.                             *)
(***************************************************************************)
Line(raw) == raw \o "\n"

\* Transcripts at the start of a behaviour: states the writer has reached.
InitialTranscripts ==
  { "",
    Line(RawSession) \o Line(RawUserHello) \o Line(RawAsstHi),
    Line(RawSession) \o Line(RawBlank) \o Line(RawNumber) \o Line(RawBadPayload)
      \o Line(RawToolResult) \o Line(RawUserPlain) \o Line(RawAsstToolOnly)
      \o Line(RawUserImage),
    Line(RawUserHeartbeat) \o Line(RawUserSystemExec) \o Line(RawAsstProgress)
      \o Line(RawAsstHi),
    Line(RawSession) \o Line(RawToolResult) }

\* The lines the writer appends.
WriterLines ==
  { RawUserHello, RawAsstHi, RawAsstProgress, RawAsstConclusion, RawUserQuoted,
    RawPartial }

\* A tail budget that makes the window start on a line boundary.
BoundaryBytes == Len(Line(RawAsstHi)) + Len(Line(RawUserHello))

\* The options of a call: none given, each one given alone (below its floor,
\* and for maxBytes and maxMessages a value above it), and several together.
ParamChoices ==
  LET P(b, m, c, l) == [maxBytes |-> b, maxMessages |-> m, maxChars |-> c, maxLineChars |-> l]
  IN  { P(None, None, None, None),
        P(Some(0), None, None, None),
        P(Some(BoundaryBytes), None, None, None),
        P(None, Some(0), None, None),
        P(None, Some(2), None, None),
        P(None, None, Some(0), None),
        P(None, None, None, Some(0)),
        P(None, Some(2), Some(0), Some(0)),
        P(Some(BoundaryBytes), Some(2), Some(0), Some(0)),
        P(Some(0), Some(0), Some(0), Some(0)) }

NoParams == [maxBytes |-> None, maxMessages |-> None, maxChars |-> None, maxLineChars |-> None]
NoResult ==
  [parsed |-> <<>>, included |-> <<>>, block |-> None,
   diagnostics |-> [parsedMessages |-> 0, includedMessages |-> 0,
                    trimmedTrailingMessages |-> 0]]

\* No earlier call is remembered.
NoPrev == <<>>

VARIABLES
  fileText,    \* the transcript file
  appended,    \* records the writer has appended
  pending,     \* the rest of a record the writer has written in part
  pc,          \* where the call of build stands
  params,      \* the options of the call
  size,        \* stat.size
  readSize,    \* bytes asked for
  offset,      \* where the window starts
  handle,      \* the file handle of the call: "none", "open" or "closed"
  reads,       \* the positioned reads the call has attempted
  error,       \* the step whose I/O error the call throws, or "none"
  tail,        \* the text read
  result,      \* what build returned
  prev         \* history: the call before this one, when this one repeats it

vars ==
  <<fileText, appended, pending, pc, params, size, readSize, offset, handle,
    reads, error, tail, result, prev>>

\* The variables of the writer, and those of a call.
writerVars == <<fileText, appended, pending>>
callVars == <<pc, params, size, readSize, offset, handle, reads, error, tail, result>>

\* No call is running and nothing of a call is held.
NoCall ==
  /\ pc = "idle"
  /\ params = NoParams
  /\ size = 0
  /\ readSize = 0
  /\ offset = 0
  /\ handle = "none"
  /\ reads = 0
  /\ error = "none"
  /\ tail = ""
  /\ result = NoResult

Init ==
  /\ fileText \in InitialTranscripts
  /\ appended = 0
  /\ pending = ""
  /\ NoCall
  /\ prev = NoPrev

\* The session runtime appends one record to the transcript, at any time.
WriterAppend ==
  /\ appended < MaxAppends
  /\ pending = ""
  /\ \E raw \in WriterLines : fileText' = fileText \o Line(raw)
  /\ appended' = appended + 1
  /\ UNCHANGED <<pending, callVars, prev>>

\* A caller invokes build with its options; fs.stat is started.
Build ==
  /\ pc = "idle"
  /\ \E p \in ParamChoices : params' = p
  /\ pc' = "stat"
  /\ UNCHANGED <<writerVars, size, readSize, offset, handle, reads, error, tail, result, prev>>

\* Mutation of Stat: the window starts at the beginning of the file.
StatFromStart ==
  /\ pc = "stat"
  /\ size' = Len(fileText)
  /\ IF size' <= 0
       THEN /\ readSize' = 0
            /\ offset' = 0
            /\ pc' = "parse"
       ELSE /\ readSize' = MathMin(size', MathMax(1, resolveMaxBytes(params)))
            /\ offset' = 0
            /\ pc' = "open"
  /\ UNCHANGED <<writerVars, params, handle, reads, error, tail, result, prev>>

\* fs.stat resolves: an empty file is not opened.
Stat ==
  /\ pc = "stat"
  /\ size' = Len(fileText)
  /\ IF size' <= 0
       THEN /\ readSize' = 0
            /\ offset' = 0
            /\ pc' = "parse"
       ELSE /\ readSize' = MathMin(size', MathMax(1, resolveMaxBytes(params)))
            /\ offset' = MathMax(0, size' - readSize')
            /\ pc' = "open"
  /\ UNCHANGED <<writerVars, params, handle, reads, error, tail, result, prev>>

\* fs.open resolves.
Open ==
  /\ pc = "open"
  /\ handle' = "open"
  /\ pc' = "read"
  /\ UNCHANGED <<writerVars, params, size, readSize, offset, reads, error, tail, result, prev>>

\* Mutation of Read: the reader goes on from where the call before it stood,
\* as a reader that keeps a file offset from call to call would.
ReadIncremental ==
  /\ pc = "read"
  /\ LET bytesRead == MathMax(0, MathMin(readSize, Len(fileText) - offset))
         start == IF prev = NoPrev THEN offset ELSE MathMax(offset, Len(prev[1].file))
     IN  tail' = SubSeq(fileText, start + 1, offset + bytesRead)
  /\ reads' = reads + 1
  /\ pc' = "close"
  /\ UNCHANGED <<writerVars, params, size, readSize, offset, handle, error, result, prev>>

\* Mutation of Read: the reader reads on to the end the file has by now.
ReadToEnd ==
  /\ pc = "read"
  /\ tail' = SubSeq(fileText, offset + 1, Len(fileText))
  /\ reads' = reads + 1
  /\ pc' = "close"
  /\ UNCHANGED <<writerVars, params, size, readSize, offset, handle, error, result, prev>>

\* handle.read resolves: the bytes of the window that the file holds.
Read ==
  /\ pc = "read"
  /\ LET bytesRead == MathMax(0, MathMin(readSize, Len(fileText) - offset))
     IN  tail' = SubSeq(fileText, offset + 1, offset + bytesRead)
  /\ reads' = reads + 1
  /\ pc' = "close"
  /\ UNCHANGED <<writerVars, params, size, readSize, offset, handle, error, result, prev>>

\* Mutation of Close: without the finally block, the handle is closed after
\* a read that resolved only.
CloseUnlessFailed ==
  /\ pc = "close"
  /\ handle' = IF error = "none" THEN "closed" ELSE handle
  /\ pc' = IF error = "none" THEN "parse" ELSE "threw"
  /\ UNCHANGED <<writerVars, params, size, readSize, offset, reads, error, tail, result, prev>>

\* handle.close resolves, in the finally block: the text is returned, or the
\* error of the read goes on to the caller.
Close ==
  /\ pc = "close"
  /\ handle' = "closed"
  /\ pc' = IF error = "none" THEN "parse" ELSE "threw"
  /\ UNCHANGED <<writerVars, params, size, readSize, offset, reads, error, tail, result, prev>>

\* The rest of build runs without an await and returns.
Return ==
  /\ pc = "parse"
  /\ result' = buildHeartbeatMainSessionContext(tail, offset, params)
  /\ pc' = "done"
  /\ UNCHANGED <<writerVars, params, size, readSize, offset, handle, reads, error, tail, prev>>

\* The caller is done with the result or the error; nothing of the call is
\* kept.
Discard ==
  /\ pc \in {"done", "threw"}
  /\ pc' = "idle"
  /\ params' = NoParams
  /\ size' = 0
  /\ readSize' = 0
  /\ offset' = 0
  /\ handle' = "none"
  /\ reads' = 0
  /\ error' = "none"
  /\ tail' = ""
  /\ result' = NoResult
  /\ prev' = NoPrev
  /\ UNCHANGED writerVars

Next ==
  \/ WriterAppend
  \/ Build
  \/ Stat
  \/ Open
  \/ Read
  \/ Close
  \/ Return
  \/ Discard

Spec == Init /\ [][Next]_vars

(***************************************************************************)
(* Calls with I/O errors, beside a writer that writes a record in parts.   *)
(***************************************************************************)
\* fs.stat rejects (the file vanished, permission denied): build rejects.
StatFails ==
  /\ pc = "stat"
  /\ error' = "stat"
  /\ pc' = "threw"
  /\ UNCHANGED <<writerVars, params, size, readSize, offset, handle, reads, tail, result, prev>>

\* fs.open rejects: build rejects, no handle was made.
OpenFails ==
  /\ pc = "open"
  /\ error' = "open"
  /\ pc' = "threw"
  /\ UNCHANGED <<writerVars, params, size, readSize, offset, handle, reads, tail, result, prev>>

\* handle.read rejects: the finally block runs next.
ReadFails ==
  /\ pc = "read"
  /\ reads' = reads + 1
  /\ error' = "read"
  /\ pc' = "close"
  /\ UNCHANGED <<writerVars, params, size, readSize, offset, handle, tail, result, prev>>

\* The records the writer writes in parts.
ChunkLines == {RawUserHello, RawAsstProgress}

\* Where a write of the line may stop: in the middle of the record, after the
\* record and before its line feed, and after the line feed.
ChunkCuts(line) == {Len(line) \div 2, Len(line) - 1, Len(line)}

\* The session runtime writes a record, or a first part of it.
WriterWrite ==
  /\ appended < MaxAppends
  /\ pending = ""
  /\ \E raw \in ChunkLines : \E cut \in ChunkCuts(Line(raw)) :
       /\ fileText' = fileText \o SubSeq(Line(raw), 1, cut)
       /\ pending' = SubSeq(Line(raw), cut + 1, Len(Line(raw)))
  /\ appended' = appended + 1
  /\ UNCHANGED <<callVars, prev>>

\* The session runtime writes the rest of the record.
WriterFinish ==
  /\ pending # ""
  /\ fileText' = fileText \o pending
  /\ pending' = ""
  /\ UNCHANGED <<appended, callVars, prev>>

NextIO ==
  \/ WriterWrite
  \/ WriterFinish
  \/ Build
  \/ Stat
  \/ StatFails
  \/ Open
  \/ OpenFails
  \/ Read
  \/ ReadFails
  \/ Close
  \/ Return
  \/ Discard

SpecIO == Init /\ [][NextIO]_vars

(***************************************************************************)
(* Calls on a file at rest: no writer.                                     *)
(***************************************************************************)
\* The records of a file at rest.
RestLines ==
  { RawUserHello, RawAsstProgress, RawAsstConclusion, RawAsstToolOnly,
    RawAsstProgressNoTool, RawAsstLongProgress, RawAsstMixed, RawUserMedia,
    RawUserEmpty, RawUserPlain, RawAsstPlain, RawUserHeartbeat }

\* The files of n records.
RECURSIVE FilesOfLines(_)
FilesOfLines(n) ==
  IF n = 0 THEN {""}
  ELSE {file \o Line(raw) : file \in FilesOfLines(n - 1), raw \in RestLines}

FilesAtRest == UNION {FilesOfLines(n) : n \in 0..MaxLines}

InitAtRest ==
  /\ fileText \in FilesAtRest
  /\ appended = 0
  /\ pending = ""
  /\ NoCall
  /\ prev = NoPrev

NextAtRest ==
  \/ Build
  \/ Stat
  \/ Open
  \/ Read
  \/ Close
  \/ Return
  \/ Discard

SpecAtRest == InitAtRest /\ [][NextAtRest]_vars

(***************************************************************************)
(* Calls on a file at rest, by a caller that may call again.               *)
(***************************************************************************)
\* The caller calls build again with the same options.  The call starts with
\* nothing of the call before it; what that call returned and the file it read
\* are remembered in prev, which no step of a call reads.
Repeat ==
  /\ pc = "done"
  /\ prev' = <<[file |-> fileText, result |-> result]>>
  /\ pc' = "stat"
  /\ size' = 0
  /\ readSize' = 0
  /\ offset' = 0
  /\ handle' = "none"
  /\ reads' = 0
  /\ error' = "none"
  /\ tail' = ""
  /\ result' = NoResult
  /\ UNCHANGED <<writerVars, params>>

NextRepeat ==
  \/ NextAtRest
  \/ Repeat

SpecRepeat == InitAtRest /\ [][NextRepeat]_vars
(***************************************************************************)
(* Properties.                                                             *)
(***************************************************************************)
Done == pc = "done"
Included == result.included
Diagnostics == result.diagnostics
MaxMessagesInEffect == resolveMaxMessages(params)
MaxCharsInEffect == resolveMaxChars(params)
MaxLineCharsInEffect == resolveMaxLineChars(params)
\* The filtered messages after the count bound, before the trim.
Bounded == takeRecent(result.parsed, MaxMessagesInEffect)
LastOf(seq) == seq[Len(seq)]
\* The text of the block (the block is not null).
BlockText == result.block[1]

IsUnresolved(m) == IsProgressOnlyAssistant(m) \/ m.role = "user"

\* The length of the longest trailing run of progress-only assistant messages.
ProgressRun(messages) ==
  LET n == Len(messages)
      runs == {k \in 0..n : \A i \in (n - k + 1)..n : IsProgressOnlyAssistant(messages[i])}
  IN  CHOOSE k \in runs : \A j \in runs : j <= k

\* The length of the longest trailing run of progress-only assistant messages
\* and user messages.
UnresolvedRun(messages) ==
  LET n == Len(messages)
      runs == {k \in 0..n : \A i \in (n - k + 1)..n : IsUnresolved(messages[i])}
  IN  CHOOSE k \in runs : \A j \in runs : j <= k

\* The messages of the transcripts of this model.
UserHelloMsg == [role |-> "user", text |-> "hello"]
AsstHiMsg == [role |-> "assistant", text |-> "hi there", isProgressOnly |-> FALSE]
AsstProgressMsg ==
  [role |-> "assistant", text |-> "let me check that", isProgressOnly |-> TRUE]
UserQuotedMsg == [role |-> "user", text |-> "fyi\nRead HEARTBEAT.md if it exists."]

TextAbsentFromBlock(m) ==
  LET text == stripAndCollapseWhitespace(m.text)
  IN  (\A i \in 1..Len(Included) :
         ~Includes(stripAndCollapseWhitespace(Included[i].text), text))
        => ~Includes(BlockText, text)

IsQualifyingLine(rawLine) ==
  LET parsed == JSONparse(Trim(rawLine))
  IN  /\ parsed.ok
      /\ parsed.value.t = "object"
      /\ parsed.value.type = Str("message")
      /\ parsed.value.message.t = "object"
      /\ parsed.value.message.role \in {Str("user"), Str("assistant")}

\* The lines of the window that are parsed.
ParsedLines == IF IsBlank(tail) THEN <<>> ELSE tailLines(tail, offset)

FullBlock ==
  header \o "\n" \o Join(renderLines(Included, MaxLineCharsInEffect), "\n")

IsBoilerplate(text) ==
  \/ StartsWith(text, "Read HEARTBEAT.md if it exists.")
  \/ Includes(text, "reply HEARTBEAT_OK")
  \/ Includes(text, "Never call the message tool to send HEARTBEAT_OK")
  \/ StartsWith(text, "System:") /\ Includes(text, "Exec completed")

\* The texts of the text blocks of the line (none when it is no message record).
LineTextParts(rawLine) ==
  LET parsed == JSONparse(Trim(rawLine))
  IN  IF parsed.ok /\ parsed.value.t = "object" /\ parsed.value.message.t = "object"
        THEN TextParts(ContentBlocks(parsed.value.message))
        ELSE <<>>

\* C7 as stated: no boilerplate text appears in the block, for any role and
\* any position of that text within a message's content blocks.
C7_NoBoilerplateTextInBlock ==
  (Done /\ result.block # None) =>
    LET lines == ParsedLines
    IN  \A i \in 1..Len(lines) :
          LET parts == LineTextParts(lines[i])
          IN  \A j \in 1..Len(parts) :
                IsBoilerplate(Trim(parts[j]))
                  => ~Includes(BlockText, stripAndCollapseWhitespace(parts[j]))

\* C7 as amended: no message whose extracted text (its text blocks joined by
\* line feeds, trimmed) starts with the heartbeat preamble, or contains
\* "reply HEARTBEAT_OK" or "Never call the message tool to send HEARTBEAT_OK",
\* or starts with "System:" and contains "Exec completed", is rendered in the
\* block, whatever its role; the lines that carry such a message contribute
\* nothing.
C7_NoBoilerplateMessageInBlock ==
  Done =>
    /\ \A i \in 1..Len(result.parsed) : ~IsBoilerplate(result.parsed[i].text)
    /\ \A i \in 1..Len(Included) : ~IsBoilerplate(Included[i].text)
    /\ LET lines == ParsedLines
           boiler == {i \in 1..Len(lines) :
                        /\ IsQualifyingLine(lines[i])
                        /\ IsBoilerplate(Trim(Join(LineTextParts(lines[i]), "\n")))}
           others == (1..Len(lines)) \ boiler
       IN  result.parsed = parseLines(SelectIdx(lines, others, 1))

\* build rendered a block from a window that holds the heartbeat prompt and a
\* system exec event.
C7_Witness ==
  /\ Done
  /\ result.block # None
  /\ LET lines == ParsedLines
     IN  /\ \E i \in 1..Len(lines) : lines[i] = RawUserHeartbeat
         /\ \E i \in 1..Len(lines) : lines[i] = RawUserSystemExec

C9_FirstLineDroppedIffOffset ==
  Done =>
    LET lines == SplitLines(tail)
    IN  IF offset > 0
          THEN result.parsed = parseLines(Tail(lines))
          ELSE result.parsed = parseLines(lines)

\* The window started on a line boundary inside the file, with a complete
\* record that yields a message as its first line.
C9_Witness ==
  /\ Done
  /\ offset > 0
  /\ CharAt(fileText, offset) = "\n"
  /\ parseLine(Head(SplitLines(tail))) # <<>>

\* The line is skipped by the parser: blank, not JSON, not an object, not of
\* kind "message", with a payload that is no object, or with a role other than
\* user and assistant.
IsSkippedLine(rawLine) ==
  LET trimmed == Trim(rawLine)
      parsed == JSONparse(trimmed)
  IN  \/ trimmed = ""
      \/ ~parsed.ok
      \/ parsed.value.t # "object"
      \/ parsed.value.type # Str("message")
      \/ parsed.value.message.t # "object"
      \/ parsed.value.message.role \notin {Str("user"), Str("assistant")}

\* C10: each line is handled on its own: a skipped line contributes nothing,
\* raises no error, and the messages of the other lines are those the tail
\* gives without it.
C10_SkippedLinesContributeNothing ==
  Done =>
    LET lines == ParsedLines
        skipped == {i \in 1..Len(lines) : IsSkippedLine(lines[i])}
    IN  /\ \A i \in skipped : parseLine(lines[i]) = <<>>
        /\ \A i \in skipped :
             result.parsed = parseLines(SelectIdx(lines, (1..Len(lines)) \ {i}, 1))
        /\ result.parsed = parseLines(SelectIdx(lines, (1..Len(lines)) \ skipped, 1))

\* build returned messages from a window that holds a skipped line of each
\* kind.
C10_Witness ==
  /\ Done
  /\ result.parsed # <<>>
  /\ LET lines == ParsedLines
     IN  \A raw \in {RawBlank, RawPartial, RawNumber, RawSession, RawBadPayload, RawToolResult} :
           \E i \in 1..Len(lines) : lines[i] = raw

HasToolBlock(rawLine) ==
  \/ Includes(rawLine, "{\"type\":\"toolCall\"")
  \/ Includes(rawLine, "{\"type\":\"toolUse\"")

\* The text is a status announcement: at most 140 characters once collapsed,
\* and leading with a progress phrase.
IsStatusText(text) ==
  LET t == stripAndCollapseWhitespace(text)
  IN  /\ Len(t) <= ProgressMaxChars
      /\ \E p \in ProgressPhrases : StartsWith(t, p)

LineMessage(rawLine) == JSONparse(Trim(rawLine)).value.message

\* The joined text of the line's text blocks.
LineText(rawLine) == Trim(Join(LineTextParts(rawLine), "\n"))

\* The distinct type tags of the line's content blocks.
LineTags(rawLine) == BlockTypes(ContentBlocks(LineMessage(rawLine)))

\* The lines of the window that yield a message.
YieldingLines(lines) == {i \in 1..Len(lines) : parseLine(lines[i]) # <<>>}

\* C13 as stated: a qualifying record yields a message if and only if its
\* text blocks give non-empty joined text, or its role is user and its content
\* has a block with a type tag.
C13_YieldsIffTextOrUserTags ==
  Done =>
    LET lines == ParsedLines
    IN  \A i \in 1..Len(lines) :
          IsQualifyingLine(lines[i]) =>
            (parseLine(lines[i]) # <<>> <=>
               \/ LineText(lines[i]) # ""
               \/ /\ LineMessage(lines[i]).role = Str("user")
                  /\ LineTags(lines[i]) # <<>>)

\* C13 as amended: a qualifying record yields a message if and only if its
\* text blocks give non-empty joined text that the noise filter does not drop,
\* or they give none, its role is user and its content has a block with a type
\* tag; the text is the joined text, or '[non-text message: ' + the distinct
\* tags in order of first appearance joined by ', ' + ']'.  An assistant
\* record with no text yields no message, and parsedMessages counts the
\* yielded messages only.
C13_YieldsIffKeptTextOrUserTags ==
  Done =>
    LET lines == ParsedLines
    IN  /\ \A i \in 1..Len(lines) :
             IsQualifyingLine(lines[i]) =>
               LET m == parseLine(lines[i])
                   text == LineText(lines[i])
                   tags == LineTags(lines[i])
                   isUser == LineMessage(lines[i]).role = Str("user")
               IN  /\ m # <<>> <=>
                        \/ text # "" /\ ~IsBoilerplate(text)
                        \/ text = "" /\ isUser /\ tags # <<>>
                   /\ m # <<>> =>
                        m[1].text = IF text # "" THEN text
                                    ELSE "[non-text message: " \o Join(tags, ", ") \o "]"
                   /\ (text = "" /\ ~isUser) => m = <<>>
                   /\ lines[i] = RawUserMedia =>
                        m[1].text = "[non-text message: text, image, audio]"
        /\ Diagnostics.parsedMessages = Cardinality(YieldingLines(lines))
        /\ Diagnostics.includedMessages + Diagnostics.trimmedTrailingMessages
             <= Cardinality(YieldingLines(lines))

\* The file holds a user record without text and an assistant record without
\* text: the first gives the placeholder, the second gives nothing and is
\* counted nowhere.
C13_Witness ==
  /\ Done
  /\ tail = Line(RawUserMedia) \o Line(RawAsstToolOnly)
  /\ Diagnostics.parsedMessages = 1
  /\ Diagnostics.includedMessages = 1
  /\ Diagnostics.trimmedTrailingMessages = 0
  /\ Included[1].text = "[non-text message: text, image, audio]"

\* fs.stat of the call has resolved.
StatDone ==
  \/ pc \in {"open", "read", "close", "parse", "done"}
  \/ pc = "threw" /\ error # "stat"

\* The text of the call has been read.
ReadDone == reads = 1 /\ error = "none" /\ pc \in {"close", "parse", "done"}

\* C14: for every file size and byte budget B, the window has length
\* min(size, max(1, B)) and starts at max(0, size - length), so that it ends at
\* the size and holds at most max(1, B) bytes; a file of size 0 gives the empty
\* text with offset 0 and is not opened.
C14_WindowIsTail ==
  StatDone =>
    LET B == resolveMaxBytes(params)
        budget == IF B < 1 THEN 1 ELSE B
        length == IF size < budget THEN size ELSE budget
    IN  IF size = 0
          THEN /\ pc \in {"parse", "done"}
               /\ tail = ""
               /\ offset = 0
               /\ readSize = 0
               /\ handle = "none"
               /\ reads = 0
          ELSE /\ readSize = length
               /\ offset = (IF size - length < 0 THEN 0 ELSE size - length)
               /\ offset + readSize = size
               /\ readSize <= budget
               /\ ReadDone =>
                    /\ Len(tail) = readSize
                    /\ tail = SubSeq(fileText, offset + 1, size)

\* A file longer than the byte budget was read: the window is the budget's
\* length and ends at the size.
C14_Witness ==
  /\ Done
  /\ params.maxBytes = Some(BoundaryBytes)
  /\ size > BoundaryBytes
  /\ readSize = BoundaryBytes
  /\ offset = size - BoundaryBytes
  /\ Len(tail) = BoundaryBytes

\* C15: a call that opens the file attempts exactly one positioned read and
\* has closed the handle when it returns or throws, also when the read fails;
\* when stat or open fails the call throws with no handle and no read; after
\* an error no step is tried again.
C15_OneReadHandleClosed ==
  /\ reads <= 1
  /\ handle = "open" <=> pc \in {"read", "close"}
  /\ pc = "read" => reads = 0
  /\ pc = "close" => reads = 1
  /\ pc \in {"parse", "done", "threw"} =>
       \/ handle = "closed" /\ reads = 1
       \/ handle = "none" /\ reads = 0
  /\ (pc \in {"parse", "done"} /\ size > 0) => (handle = "closed" /\ error = "none")
  /\ error # "none" => pc \in {"close", "threw"}
  /\ pc = "threw" =>
       /\ error # "none"
       /\ result = NoResult
       /\ error \in {"stat", "open"} => (handle = "none" /\ reads = 0)
       /\ error = "read" => (handle = "closed" /\ reads = 1)

\* The read of a call failed; the call threw with the handle closed.
C15_Witness ==
  /\ pc = "threw"
  /\ error = "read"
  /\ handle = "closed"
  /\ reads = 1

\* What build returns for a file that stands still.
BuildOnFile(file, options) ==
  LET length == MathMin(Len(file), MathMax(1, resolveMaxBytes(options)))
      start == MathMax(0, Len(file) - length)
  IN  buildHeartbeatMainSessionContext(SubSeq(file, start + 1, Len(file)), start, options)

\* The file as it was at the stat of the call.
FileAtStat == SubSeq(fileText, 1, size)

\* C17: whatever the writer appends between the stat, open, read and close of
\* a call, build returns, and returns what it returns for the file as it was at
\* the stat; a last line of that file that is a part of a record gives no
\* message.
C17_ResultOfFileAtStat ==
  Done =>
    /\ error = "none"
    /\ result = BuildOnFile(FileAtStat, params)
    /\ LET lines == ParsedLines
           last == lines[Len(lines)]
       IN  (Len(lines) > 0 /\ last # "" /\ ~JSONparse(Trim(last)).ok) =>
             result.parsed = parseLines(SubSeq(lines, 1, Len(lines) - 1))

\* The writer wrote during a call whose stat saw a record written in part;
\* build returned a block from the records before it.
C17_Witness ==
  /\ Done
  /\ Len(fileText) > size
  /\ LET lines == ParsedLines
     IN  /\ Len(lines) > 1
         /\ lines[Len(lines)] = SubSeq(RawUserHello, 1, Len(Line(RawUserHello)) \div 2)
  /\ result.block # None

HasStringContent(rawLine) == Includes(rawLine, ",\"content\":\"")

\* The content string of such a record.
ContentString(rawLine) == LineMessage(rawLine).content.s

\* C18: a user or assistant record whose content is a string yields no
\* message: it is not counted in parsedMessages, the messages are those of the
\* other lines, and its string is not in the block.
C18_StringContentYieldsNothing ==
  Done =>
    LET lines == ParsedLines
        plain == {i \in 1..Len(lines) :
                    IsQualifyingLine(lines[i]) /\ HasStringContent(lines[i])}
    IN  /\ \A i \in plain :
             /\ parseLine(lines[i]) = <<>>
             /\ result.block # None => ~Includes(BlockText, ContentString(lines[i]))
             /\ \A k \in 1..Len(result.parsed) :
                  ~Includes(result.parsed[k].text, ContentString(lines[i]))
        /\ result.parsed = parseLines(SelectIdx(lines, (1..Len(lines)) \ plain, 1))
        /\ Diagnostics.parsedMessages <= Len(lines) - Cardinality(plain)

\* The file holds a user record with blocks and a user record with a string:
\* the block is made of the first alone.
C18_Witness ==
  /\ Done
  /\ tail = Line(RawUserHello) \o Line(RawUserPlain)
  /\ Diagnostics.parsedMessages = 1
  /\ result.block # None
  /\ ~Includes(BlockText, "plain hello")
====
